---- MODULE Spec2Model ----
(***************************************************************************)
(* The three HTTP services of examples/basic:                             *)
(*   m8803  - real-mcp-manager-8803.py   (content generation, Gemini)      *)
(*   mgr    - real-mcp-manager.py        (routes to the MCP service)       *)
(*   parser - simple-real-intent-parser.py (intent parsing, Gemini)        *)
(* Each is a socketserver.TCPServer: one request is handled at a time.     *)
(* A request is followed from do_POST through the outbound call (whose     *)
(* reply is the environment's choice) to the writes on the socket (which   *)
(* the environment may fail).                                              *)
(***************************************************************************)
EXTENDS Integers, Sequences, FiniteSets, TLC

(***************************************************************************)
(* JSON values, as the handlers see them after json.loads.  A string is    *)
(* the sequence of its whitespace-separated words.                         *)
(***************************************************************************)
Absent == [ty |-> "absent", s |-> <<>>, n |-> 0]

Null == [ty |-> "null", s |-> <<>>, n |-> 0]

Str(w) == [ty |-> "str", s |-> w, n |-> 0]

Num(k) == [ty |-> "int", s |-> <<>>, n |-> k]

\* a JSON number with a fraction, held in hundredths: Frac(420) is 4.2
Frac(h) == [ty |-> "float", s |-> <<>>, n |-> h]

\* Python truth value of a JSON value
Truthy(v) ==
    CASE v.ty = "str" -> v.s # <<>>
      [] v.ty \in {"int", "float"} -> v.n # 0
      [] OTHER -> FALSE

\* dict.get(key, default): the value when the key is present (null included)
Get(v, default) == IF v.ty = "absent" THEN default ELSE v

DefaultTopic == Str(<<"AI", "automation">>)

DefaultWordCount == 800

DefaultIntent == Str(<<"Generate", "content">>)

DefaultBlogIntent == Str(<<"Write", "a", "blog", "post">>)

EmptyStr == Str(<<>>)

(***************************************************************************)
(* The requests the environment may send.                                  *)
(***************************************************************************)
SubjectVals == {Absent, EmptyStr, Str(<<"ai", "ethics">>), Str(<<"kubernetes">>)}

WordCountVals == {Absent, Num(50), Str(<<"800">>), Null}

ContentTypeVals ==
    {Absent, Str(<<"blog_post">>), Str(<<"social_media">>), Str(<<"email_newsletter">>)}

IntentVals == {Absent, EmptyStr, Str(<<"write", "a", "blog">>), Num(5), Null}

InputVals ==
    {Absent, EmptyStr, Str(<<"write", "a", "blog">>), Num(5), Num(0),
     Str(<<"Photo", "of", "a", "Blog">>), Str(<<"PICTURE", "this">>),
     Str(<<"optimize", "my", "supply", "chain">>), Str(<<"tune", "Postgres">>)}

TextVals == {Absent, EmptyStr, Str(<<"image", "of", "a", "cat">>), Num(5)}

MgrPaths == {"/generate/content", "/generate/blog", "/process/text", "/other"}

ParserPaths == {"/v1/parse", "/other"}

Request(svc, path, body, ct, def, topic, wc, intent, input, text) ==
    [svc |-> svc, path |-> path, body |-> body, content_type |-> ct,
     definition |-> def, topic |-> topic, word_count |-> wc,
     intent |-> intent, input |-> input, text |-> text]

NoRequest ==
    Request("none", "/", "dict", Absent, Absent, Absent, Absent, Absent, Absent, Absent)

\* a body that is not a JSON object carries no fields
Requests8803 ==
    {Request("m8803", "/", b, Absent, Absent, Absent, Absent, Absent, Absent, Absent) :
        b \in {"badjson", "nondict"}}
    \cup {Request("m8803", "/", "dict", ct, d, t, wc, Absent, Absent, Absent) :
        ct \in ContentTypeVals, d \in SubjectVals, t \in SubjectVals, wc \in WordCountVals}

RequestsMgr ==
    {Request("mgr", p, b, Absent, Absent, Absent, Absent, Absent, Absent, Absent) :
        p \in MgrPaths, b \in {"badjson", "nondict"}}
    \cup {Request("mgr", p, "dict", Absent, Absent, Absent, Absent, i, Absent, Absent) :
        p \in MgrPaths, i \in IntentVals}

\* a GET request has no body
GetRequest(svc, path) ==
    Request(svc, path, "none", Absent, Absent, Absent, Absent, Absent, Absent, Absent)

GetPaths8803 == {"/health", "/capabilities", "/other"}

GetPathsParser == {"/health", "/other"}

RequestsParser ==
    {Request("parser", p, b, Absent, Absent, Absent, Absent, Absent, Absent, Absent) :
        p \in ParserPaths, b \in {"badjson", "nondict"}}
    \cup {Request("parser", p, "dict", Absent, Absent, Absent, Absent, Absent, i, t) :
        p \in ParserPaths, i \in InputVals, t \in TextVals}

(***************************************************************************)
(* The replies of the upstream provider.                                   *)
(***************************************************************************)
\* requests.post raised, or the status is not 200
TransportFailures == {"timeout", "transport_error", "status_429"}

\* status 200, and the body is not the provider's envelope with a text in it
BodyFailures ==
    {"body_nonjson", "body_empty_object", "body_nondict", "no_candidates", "bad_shape"}

\* status 200, candidates[0].content.parts[0].text is a string
TextReplies ==
    {"text_nojson", "text_badjson", "text_json_partial", "text_json_full",
     "text_json_conf_over", "text_json_conf_str"}

\* the texts whose embedded JSON object has every key the parser reads
JsonFullReplies == {"text_json_full", "text_json_conf_over", "text_json_conf_str"}

GeminiReplies == TransportFailures \cup BodyFailures \cup TextReplies

\* candidates[0].content.parts[0].text of a text reply
GeneratedText(k) ==
    CASE k = "text_nojson" -> Str(<<"Kubernetes", "schedules", "containers">>)
      [] k = "text_badjson" -> Str(<<"{workflow_type:", "blog}">>)
      [] k = "text_json_partial" -> Str(<<"{}">>)
      [] OTHER -> Str(<<"{", k, "}">>)

MaxSeed == 1

\* the salts a process may draw for its str hashes (PYTHONHASHSEED)
HashSeeds == 0..MaxSeed

\* hash(str): a function of the text and of the salt of the process, with
\* values of either sign.  This keyed family stands for the interpreter's.
StrHash(seed, text) == (Len(text.s) * (seed + 2) * 5) - 13

\* the MCP service at localhost:8804
McpReplies ==
    {"timeout", "transport_error", "status_429", "body_nonjson", "body_empty_object",
     "body_nondict", "dict_partial", "dict_full"}

Credentials == {"unset", "empty", "set"}

\* faulty variant: the credential is never looked at
MutKeyAlways(key) == TRUE

\* bool(os.getenv('GEMINI_API_KEY')): unset and empty both count as missing
KeyTruthy(key) == key = "set"

(***************************************************************************)
(* Responses, as written on the socket.                                    *)
(***************************************************************************)
\* an identifier: its prefix, where its number comes from (a uuid4 draw or
\* the clock), and the number.  The uuid4 draws of a process are taken to be
\* pairwise distinct: draw k of the request with ordinal seq.
ExecId(prefix, src, seq, k) == [prefix |-> prefix, src |-> src, seq |-> seq, k |-> k]

NoId == ExecId("none", "none", 0, 0)

\* a content string: the template cut to its first `kept` words, with the
\* closing tag glued to the last of them or not, and the additional section
\* appended `extra` times; or a text the provider generated
Content(kind, kept, closing, extra, text) ==
    [kind |-> kind, kept |-> kept, closing |-> closing, extra |-> extra, text |-> text]

NoContent == Content("none", 0, FALSE, 0, "none")

\* the intent of a parse response
Intent(workflow, function, contentType, confidence, confScore, intentId, funcId) ==
    [workflow |-> workflow, function |-> function, contentType |-> contentType,
     confidence |-> confidence, confScore |-> confScore,
     intentId |-> intentId, funcId |-> funcId]

NoIntent == Intent("none", "none", "none", Absent, Absent, NoId, NoId)

Resp(code, status, prov, aiFlag, fallbackUsed, warning, invented, subj) ==
    [code |-> code, status |-> status, prov |-> prov, aiFlag |-> aiFlag,
     fallbackUsed |-> fallbackUsed, warning |-> warning, invented |-> invented,
     subj |-> subj, complete |-> TRUE, stale |-> <<>>,
     execId |-> NoId, fields |-> {}, quality |-> Absent, wordCount |-> Absent,
     content |-> NoContent, intent |-> NoIntent, aiAvailable |-> "none",
     services |-> <<>>, healthyServices |-> Absent]

NoResp == Resp(0, "none", "none", "none", FALSE, FALSE, FALSE, Absent)

ErrorFields == {"error", "message", "status_code", "timestamp"}

\* the error envelope of _send_error_response (mgr, parser)
ErrResp(code) ==
    [Resp(code, "error", "none", "none", FALSE, FALSE, FALSE, Absent)
        EXCEPT !.fields = ErrorFields]

VARIABLES
    apiKey,     \* the GEMINI_API_KEY of the process environment
    hashSeed,   \* the salt of str hashes, drawn when the process starts
    clock,      \* time.time() in whole seconds
    hist,       \* the exchanges completed before this request, as a client saw them
    pc,         \* idle | upstream | probe | send | done
    req,        \* the request being handled
    norm,       \* none | accepted | rejected : what normalization decided
    subject,    \* the subject / user input normalization resolved
    site,       \* where the pending send stands: try | except | route | top | get | health
    pending,    \* the response about to be written
    primary,    \* the outcome of the primary resolver, "none" before it ran
    reply,      \* the upstream reply received, "none" when no call returned
    netCalls,   \* outbound calls made for this request
    probes,     \* the replies to the health probes of this request, in order
    log,        \* the resolvers run for this request, in order
    wire,       \* the responses written for this request, in order
    faults,     \* socket writes that failed for this request
    hdrBuf,     \* status codes of the header blocks buffered and not yet flushed
    crashed     \* an exception left do_POST

\* what a request leaves as it found it
world == <<apiKey, hashSeed, clock, hist>>

vars ==
    <<apiKey, hashSeed, clock, hist, pc, req, norm, subject, site, pending, primary, reply, netCalls,
      probes, log, wire, faults, hdrBuf, crashed>>

(***************************************************************************)
(* What a step of a handler leaves behind: where control stands, what is   *)
(* about to be written, and the resolvers it ran.                          *)
(***************************************************************************)
Out(pcv, sitev, resp, prim, entries, crash) ==
    [pc |-> pcv, site |-> sitev, pending |-> resp, primary |-> prim,
     logAdd |-> entries, crashed |-> crash]

Entry(res, subj, ok) == [res |-> res, subj |-> subj, ok |-> ok]

\* the except clause of do_POST: the 500 error response
ErrOut(prim, entries) == Out("send", "top", ErrResp(500), prim, entries, FALSE)

\* an exception raised in the except clause of do_POST leaves the handler
CrashOut(prim) == Out("done", "none", NoResp, prim, <<>>, TRUE)

\* the outbound call is in flight
CallOut(subj) == Out("upstream", "try", NoResp, "pending", <<Entry("primary", subj, TRUE)>>, FALSE)

(***************************************************************************)
(* m8803: real-mcp-manager-8803.py                                         *)
(***************************************************************************)
\* faulty variant: "topic" takes precedence over "definition"
MutTopic8803(r) == Get(r.topic, Get(r.definition, DefaultTopic))

\* topic = request_data.get('definition', request_data.get('topic', 'AI automation'))
Topic8803(r) == Get(r.definition, Get(r.topic, DefaultTopic))

WordCount8803(r) == Get(r.word_count, Num(DefaultWordCount))

\* call_gemini_api builds "maxOutputTokens": word_count * 2 before the call
GeminiPayloadRaises(wc) == wc.ty = "null"

\* generate_fallback_content compares len(words) with word_count
FallbackContentRaises(wc) == wc.ty # "int"

\* execution_id = f'<prefix>_{uuid.uuid4().hex[:8]}': the one uuid4 draw of the request
UuidId(prefix, k) == ExecId(prefix, "uuid", Len(hist) + 1, k)

TemplateBaseWords == 201

AdditionalBaseWords == 67

SocialBaseWords == 30

GenericWordCount == 600

\* len(template.split()) of the filled-in template: {topic} stands at five
\* places; an empty topic leaves ":" and "<p>" standing as words
TemplateWords(topic) ==
    IF Len(topic.s) = 0 THEN TemplateBaseWords + 2
    ELSE TemplateBaseWords + 5 * Len(topic.s)

\* the words of the additional section: {topic} stands at two places
AdditionalWords(topic) ==
    IF Len(topic.s) = 0 THEN AdditionalBaseWords + 1
    ELSE AdditionalBaseWords + 2 * Len(topic.s)

\* len(words[:n]) for a list of `len` words
SliceLen(len, n) ==
    IF n >= 0 THEN (IF n < len THEN n ELSE len)
    ELSE (IF len + n > 0 THEN len + n ELSE 0)

\* faulty variant: the section is added from 80% on, not only below it
MutNeedsExtension(words, word_count) == 5 * words <= 4 * word_count

\* len(words) < word_count * 0.8
NeedsExtension(words, word_count) == 5 * words < 4 * word_count

\* len(words) > word_count
NeedsTruncation(words, word_count) == words > word_count

\* generate_fallback_content(topic, word_count) for an integer word_count
generate_fallback_content(topic, word_count) ==
    LET words == TemplateWords(topic)
    IN  IF NeedsTruncation(words, word_count)
        THEN Content("template", SliceLen(words, word_count), TRUE, 0, "none")
        ELSE IF NeedsExtension(words, word_count)
        THEN Content("template", words, FALSE, 1, "none")
        ELSE Content("template", words, FALSE, 0, "none")

\* len(content.split()): the closing tag is glued to the last word kept and
\* is a word of its own when no word is kept
ContentWords(c, topic) ==
    CASE c.kind = "template" ->
           IF c.closing THEN (IF c.kept = 0 THEN 1 ELSE c.kept)
           ELSE c.kept + c.extra * AdditionalWords(topic)
      [] c.kind = "generated" -> Len(GeneratedText(c.text).s)
      [] c.kind = "social" ->
           IF Len(topic.s) = 0 THEN SocialBaseWords + 1
           ELSE SocialBaseWords + Len(topic.s)
      [] OTHER -> 0

Fields8803 ==
    {"execution_id", "status", "result", "result.content", "result.word_count",
     "result.quality_score", "result.execution_time_ms", "result.metadata"}

ErrorFields8803 ==
    {"execution_id", "status", "error", "result", "result.content",
     "result.quality_score", "result.execution_time_ms"}

\* the envelope the three generate_* functions return
Envelope8803(resp, prefix, content, quality, topic) ==
    [resp EXCEPT !.execId = UuidId(prefix, 1),
                 !.fields = Fields8803,
                 !.content = content,
                 !.wordCount = Num(ContentWords(content, topic)),
                 !.quality = quality]

\* quality_score = 4.7 + (hash(content) % 6) * 0.05
QualityScore(h) == Frac(470 + (h % 6) * 5)

BlogPrimaryResp(topic, k) ==
    Envelope8803(Resp(200, "completed", "primary", "true", FALSE, FALSE, FALSE, topic),
                 "real", Content("generated", 0, FALSE, 0, k),
                 QualityScore(StrHash(hashSeed, GeneratedText(k))), topic)

BlogFallbackResp(topic, wc, quality) ==
    Envelope8803(Resp(200, "completed", "fallback", "false", FALSE, FALSE, FALSE, topic),
                 "real", generate_fallback_content(topic, wc.n), quality, topic)

SocialResp(topic) ==
    Envelope8803(Resp(200, "completed", "template", "none", FALSE, FALSE, FALSE, topic),
                 "social", Content("social", 0, FALSE, 0, "none"), Frac(440), topic)

GenericResp(topic) ==
    Envelope8803(Resp(200, "completed", "fallback", "none", FALSE, FALSE, FALSE, topic),
                 "generic", generate_fallback_content(topic, GenericWordCount),
                 Frac(430), topic)

\* the error envelope of do_POST: 'execution_id': f'error_{int(time.time())}'
ErrResp8803 ==
    [ErrResp(500) EXCEPT !.execId = ExecId("error", "clock", clock, 0),
                         !.fields = ErrorFields8803,
                         !.quality = Frac(0)]

ErrOut8803(prim, entries) == Out("send", "top", ErrResp8803, prim, entries, FALSE)

\* the except branch of generate_blog_content
BlogExcept(topic, wc, prim, entries) ==
    IF FallbackContentRaises(wc)
    THEN ErrOut8803(prim, entries \o <<Entry("fallback", topic, FALSE)>>)
    ELSE Out("send", "try", BlogFallbackResp(topic, wc, Frac(400)), prim,
             entries \o <<Entry("fallback", topic, TRUE)>>, FALSE)

\* generate_blog_content up to the outbound call
BlogStart(r, key) ==
    LET topic == Topic8803(r)
        wc == WordCount8803(r)
    IN  IF KeyTruthy(key)
        THEN IF GeminiPayloadRaises(wc)
             THEN BlogExcept(topic, wc, "payload_error", <<Entry("primary", topic, FALSE)>>)
             ELSE CallOut(topic)
        ELSE IF FallbackContentRaises(wc)
             THEN BlogExcept(topic, wc, "missing_credentials",
                             <<Entry("fallback", topic, FALSE)>>)
             ELSE Out("send", "try", BlogFallbackResp(topic, wc, Frac(420)),
                      "missing_credentials",
                      <<Entry("fallback", topic, TRUE)>>, FALSE)

FailureReason(k) ==
    CASE k = "timeout" -> "timeout"
      [] k = "transport_error" -> "transport_error"
      [] k = "status_429" -> "bad_upstream_status"
      [] OTHER -> "malformed_upstream_body"

\* generate_blog_content after call_gemini_api returned or raised
BlogReply(r, k) ==
    LET topic == Topic8803(r)
        wc == WordCount8803(r)
    IN  IF k \in TextReplies
        THEN Out("send", "try", BlogPrimaryResp(topic, k), "success", <<>>, FALSE)
        ELSE BlogExcept(topic, wc, FailureReason(k), <<>>)

\* the routing of do_POST
Route8803(r) ==
    LET ct == Get(r.content_type, Str(<<"blog_post">>))
    IN  IF ct = Str(<<"blog_post">>) THEN "blog_post"
        ELSE IF ct = Str(<<"social_media">>) THEN "social_media"
        ELSE "generic"

\* do_POST up to the outbound call or the first write
Post8803(r, key) ==
    IF r.body # "dict"
    THEN ErrOut8803("none", <<>>)
    ELSE CASE Route8803(r) = "blog_post" -> BlogStart(r, key)
           [] Route8803(r) = "social_media" ->
                Out("send", "try", SocialResp(Topic8803(r)), "none",
                    <<Entry("template", Topic8803(r), TRUE)>>, FALSE)
           [] OTHER ->
                Out("send", "try", GenericResp(Topic8803(r)), "none",
                    <<Entry("fallback", Topic8803(r), TRUE)>>, FALSE)

\* send_health_response, send_capabilities_response, send_default_response
GetResp8803(path, key) ==
    LET available == IF KeyTruthy(key) THEN "true" ELSE "false"
    IN  [Resp(200, IF path = "/health" THEN "healthy" ELSE "none",
              "none", "none", FALSE, FALSE, FALSE, Absent)
            EXCEPT !.aiAvailable = IF path \in {"/health", "/capabilities"}
                                   THEN available ELSE "none"]

\* do_GET: no try around the handlers
Get8803Out(path, key) == Out("send", "get", GetResp8803(path, key), "none", <<>>, FALSE)

Norm8803(r) == IF r.body = "dict" THEN "accepted" ELSE "rejected"

Subject8803(r) == IF r.body = "dict" THEN Topic8803(r) ELSE Absent

\* an exception raised by a write at `s`
Raise8803(s, prim) == IF s = "try" THEN ErrOut8803(prim, <<>>) ELSE CrashOut(prim)

(***************************************************************************)
(* mgr: real-mcp-manager.py                                                *)
(***************************************************************************)
\* intent = request_data.get('intent', ...): the prompt sent to the MCP service
IntentMgr(r) ==
    IF r.path = "/generate/blog" THEN Get(r.intent, DefaultBlogIntent)
    ELSE Get(r.intent, DefaultIntent)

\* _send_fallback_response reads request_data.get('intent', 'Generate content')
FallbackIntentMgr(r) == Get(r.intent, DefaultIntent)

\* request_data.get on a body that is no object, or intent[:50] on a non-string
MgrFallbackRaises(r) == r.body # "dict" \/ FallbackIntentMgr(r).ty # "str"

ContentFieldsMgr ==
    {"execution_id", "status", "result", "result.content", "result.title",
     "result.quality_score", "result.word_count", "result.execution_time_ms",
     "result.model_used", "result.generated_at", "result.real_ai_content", "metadata"}

BlogFieldsMgr ==
    {"execution_id", "status", "result", "result.blog_post", "result.quality_scores",
     "result.execution_time_ms", "result.real_ai_generation"}

FallbackFieldsMgr ==
    {"execution_id", "status", "result", "result.content", "result.title",
     "result.quality_score", "result.execution_time_ms", "result.fallback_used",
     "result.message", "warning"}

MgrFallbackResp(r) ==
    [Resp(200, "completed", "fallback", "none", TRUE, TRUE, FALSE, FallbackIntentMgr(r))
        EXCEPT !.execId = UuidId("", 1),
               !.fields = FallbackFieldsMgr,
               !.quality = Frac(420)]

\* response.get('quality_score', default) of the content and the blog handler
QualityMgr(r, k) ==
    IF k = "dict_full" THEN Frac(490)
    ELSE IF r.path = "/generate/blog" THEN Frac(480) ELSE Frac(450)

\* response.get(key, default) fills what the MCP reply lacks with fixed defaults
MgrPrimaryResp(r, k) ==
    [Resp(200, "completed", "primary", "true", FALSE, FALSE, k = "dict_partial", IntentMgr(r))
        EXCEPT !.execId = UuidId("", 1),
               !.fields = IF r.path = "/generate/blog" THEN BlogFieldsMgr
                          ELSE ContentFieldsMgr,
               !.quality = QualityMgr(r, k)]

\* the except branch of _handle_content_generation / _handle_blog_generation
MgrExcept(r, prim, entries) ==
    IF MgrFallbackRaises(r)
    THEN ErrOut(prim, entries \o <<Entry("fallback", Absent, FALSE)>>)
    ELSE Out("send", "except", MgrFallbackResp(r), prim,
             entries \o <<Entry("fallback", FallbackIntentMgr(r), TRUE)>>, FALSE)

\* the else branch: _send_fallback_response inside the try
MgrElse(r, prim) ==
    IF MgrFallbackRaises(r)
    THEN MgrExcept(r, prim, <<Entry("fallback", Absent, FALSE)>>)
    ELSE Out("send", "try", MgrFallbackResp(r), prim,
             <<Entry("fallback", FallbackIntentMgr(r), TRUE)>>, FALSE)

\* do_POST up to the outbound call or the first write
PostMgr(r) ==
    IF r.body = "badjson" THEN ErrOut("none", <<>>)
    ELSE IF r.path = "/process/text" THEN ErrOut("none", <<>>)
    ELSE IF r.body = "nondict" THEN MgrExcept(r, "none", <<>>)
    ELSE CallOut(IntentMgr(r))

\* _call_mcp_service returned: None on any failure, else the decoded body
MgrReply(r, k) ==
    IF k \in {"timeout", "transport_error", "status_429", "body_nonjson", "body_empty_object"}
    THEN MgrElse(r, FailureReason(k))
    ELSE IF k = "body_nondict"
    THEN MgrExcept(r, "malformed_upstream_body", <<>>)
    ELSE Out("send", "try", MgrPrimaryResp(r, k), "success", <<>>, FALSE)

NormMgr(r) ==
    IF r.body # "dict" THEN "rejected"
    ELSE IF r.path = "/process/text" THEN "unrouted"
    ELSE "accepted"

SubjectMgr(r) == IF NormMgr(r) = "accepted" THEN IntentMgr(r) ELSE Absent

GetPathsMgr == {"/health", "/services", "/services/demo-content-mcp", "/other"}

\* what requests.get(f"{url}/health", timeout=5) meets at localhost:8804
ProbeReplies == {"status_200", "status_503", "timeout"}

\* _check_service_health: status 200, and False for anything raised
ProbeOk(k) == k = "status_200"

\* 'healthy' if <probe> else 'unhealthy'
ServiceStatus(ok) == IF ok THEN "healthy" ELSE "unhealthy"

\* the calls of _check_service_health a GET handler makes
ProbesNeeded(path) ==
    CASE path = "/health" -> 1
      [] path = "/services" -> 2
      [] OTHER -> 0

\* _handle_health: the status of demo_content_mcp comes from its one probe
HealthRespMgr(ps) ==
    [Resp(200, "healthy", "none", "none", FALSE, FALSE, FALSE, Absent)
        EXCEPT !.services = <<ServiceStatus(ProbeOk(ps[1]))>>]

\* sum(1 for s in [self._check_service_health(...)] if s): a probe of its own
HealthyServices(ps) == Num(IF ProbeOk(ps[2]) THEN 1 ELSE 0)

\* _handle_services_list: the dict literal is evaluated in order, the status
\* of the listing from the first probe and healthy_services from the second
ServicesRespMgr(ps) ==
    [Resp(200, "none", "none", "none", FALSE, FALSE, FALSE, Absent)
        EXCEPT !.services = <<ServiceStatus(ProbeOk(ps[1]))>>,
               !.healthyServices = HealthyServices(ps)]

\* _handle_default_get ('real_ai_enabled': True)
InfoRespMgr ==
    [Resp(200, "none", "none", "none", FALSE, FALSE, FALSE, Absent)
        EXCEPT !.aiAvailable = "enabled"]

\* do_GET up to the first probe or the first write.  The class has no
\* _handle_service_status: a path under /services/ raises AttributeError, and
\* do_GET has no try
GetMgrOut(path) ==
    IF path = "/health" THEN Out("probe", "health", NoResp, "none", <<>>, FALSE)
    ELSE IF path = "/services" THEN Out("probe", "get", NoResp, "none", <<>>, FALSE)
    ELSE IF path = "/other" THEN Out("send", "get", InfoRespMgr, "none", <<>>, FALSE)
    ELSE CrashOut("none")

\* the last probe of the handler returned: the response is built and sent
MgrProbed(r, ps) ==
    IF r.path = "/health" THEN Out("send", "health", HealthRespMgr(ps), "none", <<>>, FALSE)
    ELSE Out("send", "get", ServicesRespMgr(ps), "none", <<>>, FALSE)

\* a write raised: the except of _handle_health answers 500, and nothing
\* catches what is raised in the other GET handlers or in that answer
RaiseMgr(r, s, prim) ==
    IF s = "try" THEN MgrExcept(r, prim, <<>>)
    ELSE IF s = "health" THEN Out("send", "get", ErrResp(500), prim, <<>>, FALSE)
    ELSE IF s \in {"top", "get"} THEN CrashOut(prim)
    ELSE ErrOut(prim, <<>>)

(***************************************************************************)
(* parser: simple-real-intent-parser.py                                    *)
(***************************************************************************)
\* user_input = request_data.get('input', request_data.get('text', ''))
UserInput(r) == Get(r.input, Get(r.text, EmptyStr))

\* _create_fallback_intent calls user_input.lower()
IntentRaises(v) == v.ty # "str"

\* the characters of the words the requests are made of
Spell(w) ==
    CASE w = "write" -> <<"w", "r", "i", "t", "e">>
      [] w = "a" -> <<"a">>
      [] w = "blog" -> <<"b", "l", "o", "g">>
      [] w = "image" -> <<"i", "m", "a", "g", "e">>
      [] w = "of" -> <<"o", "f">>
      [] w = "cat" -> <<"c", "a", "t">>
      [] w = "Photo" -> <<"P", "h", "o", "t", "o">>
      [] w = "Blog" -> <<"B", "l", "o", "g">>
      [] w = "PICTURE" -> <<"P", "I", "C", "T", "U", "R", "E">>
      [] w = "this" -> <<"t", "h", "i", "s">>
      [] w = "optimize" -> <<"o", "p", "t", "i", "m", "i", "z", "e">>
      [] w = "my" -> <<"m", "y">>
      [] w = "supply" -> <<"s", "u", "p", "p", "l", "y">>
      [] w = "chain" -> <<"c", "h", "a", "i", "n">>
      [] w = "tune" -> <<"t", "u", "n", "e">>
      [] w = "Postgres" -> <<"P", "o", "s", "t", "g", "r", "e", "s">>
      [] w = "post" -> <<"p", "o", "s", "t">>
      [] w = "article" -> <<"a", "r", "t", "i", "c", "l", "e">>
      [] w = "picture" -> <<"p", "i", "c", "t", "u", "r", "e">>
      [] w = "photo" -> <<"p", "h", "o", "t", "o">>
      [] OTHER -> <<w>>

RECURSIVE Chars(_)
\* the characters of a string: its words, one blank between two
Chars(ws) ==
    IF ws = <<>> THEN <<>>
    ELSE IF Len(ws) = 1 THEN Spell(ws[1])
    ELSE Spell(ws[1]) \o <<" ">> \o Chars(Tail(ws))

LowerChar(c) ==
    CASE c = "B" -> "b" [] c = "C" -> "c" [] c = "E" -> "e" [] c = "I" -> "i"
      [] c = "P" -> "p" [] c = "R" -> "r" [] c = "T" -> "t" [] c = "U" -> "u"
      [] OTHER -> c

\* str.lower()
Lower(cs) == [i \in 1..Len(cs) |-> LowerChar(cs[i])]

\* `word in text`: word is a substring of text
Contains(text, word) ==
    \E i \in 1..(Len(text) - Len(word) + 1) : SubSeq(text, i, i + Len(word) - 1) = word

BlogKeywords == {"blog", "post", "article", "write"}

ImageKeywords == {"image", "picture", "photo"}

\* any(word in user_input.lower() for word in keywords)
AnyKeyword(v, keywords) ==
    \E w \in keywords : Contains(Lower(Chars(v.s)), Spell(w))

\* faulty variant: the image keywords are looked for first
MutWorkflowType(v) ==
    IF AnyKeyword(v, ImageKeywords) THEN "image-generation"
    ELSE IF AnyKeyword(v, BlogKeywords) THEN "blog-post-generation"
    ELSE "content-generation"

\* the if / elif / else of _create_fallback_intent
WorkflowType(v) ==
    IF AnyKeyword(v, BlogKeywords) THEN "blog-post-generation"
    ELSE IF AnyKeyword(v, ImageKeywords) THEN "image-generation"
    ELSE "content-generation"

FunctionName(workflow) ==
    CASE workflow = "blog-post-generation" -> "create_blog_post"
      [] workflow = "image-generation" -> "create_image"
      [] OTHER -> "create_content"

\* workflow_type.split('-')[0]
ContentTypeOf(workflow) ==
    CASE workflow = "blog-post-generation" -> "blog"
      [] workflow = "image-generation" -> "image"
      [] OTHER -> "content"

PrimaryFieldsParser ==
    {"intent_id", "user_id", "workflow_type", "confidence", "parsed_intent", "functions",
     "real_ai_parsing", "model_used", "timestamp"}

\* _create_fallback_intent(user_input, user_id) for a string
ParserFallbackResp(v) ==
    [Resp(200, "completed", "fallback", "false", TRUE, FALSE, FALSE, v)
        EXCEPT !.fields = PrimaryFieldsParser \cup {"fallback_used"},
               !.intent = Intent(WorkflowType(v), FunctionName(WorkflowType(v)),
                                 ContentTypeOf(WorkflowType(v)), Frac(75), Frac(75),
                                 UuidId("", 1), UuidId("", 2))]

\* gemini_intent.get("confidence", 0.8): what the text's JSON holds, else 0.8
Confidence(k) ==
    CASE k = "text_json_full" -> Frac(95)
      [] k = "text_json_conf_over" -> Num(7)
      [] k = "text_json_conf_str" -> Str(<<"high">>)
      [] OTHER -> Frac(80)

\* gemini_intent.get("workflow_type", "blog-post-generation")
WorkflowOf(k) ==
    IF k \in JsonFullReplies THEN "content-creation" ELSE "blog-post-generation"

\* _parse_gemini_response: a text without parsable JSON gets a fixed intent,
\* and a parsed JSON gets defaults for the keys it lacks
ParserPrimaryResp(v, k) ==
    [Resp(200, "completed", "primary", "true", FALSE, FALSE, k \notin JsonFullReplies, v)
        EXCEPT !.fields = PrimaryFieldsParser,
               !.intent = Intent(WorkflowOf(k), "create_blog_post", "blog_post",
                                 Confidence(k), Confidence(k),
                                 UuidId("", 1), UuidId("", 2))]

\* the except branch of _handle_intent_parsing
ParserExcept(r, prim, entries) ==
    LET arg == Get(r.input, EmptyStr)
    IN  IF r.body # "dict" THEN ErrOut(prim, entries)
        ELSE IF IntentRaises(arg)
        THEN ErrOut(prim, entries \o <<Entry("fallback", arg, FALSE)>>)
        ELSE Out("send", "except", ParserFallbackResp(arg), prim,
                 entries \o <<Entry("fallback", arg, TRUE)>>, FALSE)

\* _create_fallback_intent(user_input, user_id) inside the try
ParserFallback(r, prim, entries) ==
    LET ui == UserInput(r)
    IN  IF IntentRaises(ui)
        THEN ParserExcept(r, prim, entries \o <<Entry("fallback", ui, FALSE)>>)
        ELSE Out("send", "try", ParserFallbackResp(ui), prim,
                 entries \o <<Entry("fallback", ui, TRUE)>>, FALSE)

\* do_POST up to the outbound call or the first write
PostParser(r, key) ==
    IF r.body = "badjson" THEN ErrOut("none", <<>>)
    ELSE IF r.path # "/v1/parse" THEN Out("send", "route", ErrResp(404), "none", <<>>, FALSE)
    ELSE IF r.body = "nondict" THEN ParserExcept(r, "none", <<>>)
    ELSE IF ~Truthy(UserInput(r)) THEN Out("send", "try", ErrResp(400), "none", <<>>, FALSE)
    ELSE IF KeyTruthy(key) THEN CallOut(UserInput(r))
    ELSE ParserFallback(r, "missing_credentials", <<Entry("primary", UserInput(r), FALSE)>>)

\* _call_gemini_api returned: None on any failure, else the decoded body
ParserReply(r, k) ==
    IF k \in TransportFailures \cup {"body_nonjson", "body_empty_object"}
    THEN ParserFallback(r, FailureReason(k), <<>>)
    ELSE IF k \in BodyFailures
    THEN ParserFallback(r, "malformed_upstream_body", <<>>)
    ELSE Out("send", "try", ParserPrimaryResp(UserInput(r), k), "success", <<>>, FALSE)

\* _handle_health ('llm_status': 'connected') and _handle_info ('real_ai_enabled': True)
GetRespParser(path) ==
    [Resp(200, IF path = "/health" THEN "healthy" ELSE "none",
          "none", "none", FALSE, FALSE, FALSE, Absent)
        EXCEPT !.aiAvailable = IF path = "/health" THEN "connected" ELSE "enabled"]

\* do_GET: no try around the handlers
GetParserOut(path) == Out("send", "get", GetRespParser(path), "none", <<>>, FALSE)

NormParser(r) ==
    IF r.body # "dict" THEN "rejected"
    ELSE IF r.path # "/v1/parse" THEN "unrouted"
    ELSE IF ~Truthy(UserInput(r)) THEN "rejected"
    ELSE "accepted"

SubjectParser(r) == IF r.body = "dict" /\ r.path = "/v1/parse" THEN UserInput(r) ELSE Absent

RaiseParser(r, s, prim) ==
    IF s = "try" THEN ParserExcept(r, prim, <<>>)
    ELSE IF s \in {"top", "get"} THEN CrashOut(prim)
    ELSE ErrOut(prim, <<>>)

(***************************************************************************)
(* The state machine.                                                      *)
(***************************************************************************)
Init ==
    /\ apiKey \in Credentials
    /\ hashSeed \in HashSeeds
    /\ clock = 0
    /\ hist = <<>>
    /\ pc = "idle"
    /\ req = NoRequest
    /\ norm = "none"
    /\ subject = Absent
    /\ site = "none"
    /\ pending = NoResp
    /\ primary = "none"
    /\ reply = "none"
    /\ netCalls = 0
    /\ probes = <<>>
    /\ log = <<>>
    /\ wire = <<>>
    /\ faults = 0
    /\ hdrBuf = <<>>
    /\ crashed = FALSE

\* the handler's state after a step
Apply(out, entries) ==
    /\ pc' = out.pc
    /\ site' = out.site
    /\ pending' = out.pending
    /\ primary' = out.primary
    /\ log' = entries \o out.logAdd
    /\ crashed' = out.crashed

Begin(r, out, nrm, subj) ==
    /\ pc = "idle"
    /\ req' = r
    /\ norm' = nrm
    /\ subject' = subj
    /\ Apply(out, <<>>)
    /\ netCalls' = IF out.pc \in {"upstream", "probe"} THEN 1 ELSE 0
    /\ probes' = <<>>
    /\ reply' = "none"
    /\ wire' = <<>>
    /\ faults' = 0
    /\ hdrBuf' = <<>>
    /\ UNCHANGED world

Receive8803 ==
    \E r \in Requests8803 : Begin(r, Post8803(r, apiKey), Norm8803(r), Subject8803(r))

ReceiveMgr ==
    \E r \in RequestsMgr : Begin(r, PostMgr(r), NormMgr(r), SubjectMgr(r))

ReceiveParser ==
    \E r \in RequestsParser : Begin(r, PostParser(r, apiKey), NormParser(r), SubjectParser(r))

Get8803 ==
    \E p \in GetPaths8803 :
        Begin(GetRequest("m8803", p), Get8803Out(p, apiKey), "none", Absent)

GetParser ==
    \E p \in GetPathsParser :
        Begin(GetRequest("parser", p), GetParserOut(p), "none", Absent)

GetMgr ==
    \E p \in GetPathsMgr :
        Begin(GetRequest("mgr", p), GetMgrOut(p), "none", Absent)

\* a call of _check_service_health returned: the handler makes its next
\* probe, or has them all and goes on to write its response
Probe ==
    /\ pc = "probe"
    /\ \E k \in ProbeReplies :
         LET ps == Append(probes, k)
         IN  /\ probes' = ps
             /\ IF Len(ps) < ProbesNeeded(req.path)
                THEN /\ netCalls' = netCalls + 1
                     /\ UNCHANGED <<pc, site, pending, primary, log, crashed>>
                ELSE /\ netCalls' = netCalls
                     /\ Apply(MgrProbed(req, ps), log)
    /\ UNCHANGED <<world, req, norm, subject, reply, wire, faults, hdrBuf>>

Replied(k, out) ==
    /\ pc = "upstream"
    /\ reply' = k
    /\ Apply(out, log)
    /\ UNCHANGED <<world, req, norm, subject, netCalls, probes, wire, faults, hdrBuf>>

Reply8803 ==
    /\ req.svc = "m8803"
    /\ \E k \in GeminiReplies : Replied(k, BlogReply(req, k))

ReplyMgr ==
    /\ req.svc = "mgr"
    /\ \E k \in McpReplies : Replied(k, MgrReply(req, k))

ReplyParser ==
    /\ req.svc = "parser"
    /\ \E k \in GeminiReplies : Replied(k, ParserReply(req, k))

\* send_response, end_headers, json.dumps and wfile.write all went through.
\* end_headers flushes the whole header buffer: the header blocks an earlier
\* failed flush left in it go out in front of this response.
SendOk ==
    /\ pc = "send"
    /\ wire' = Append(wire, [pending EXCEPT !.stale = hdrBuf])
    /\ hdrBuf' = <<>>
    /\ pc' = "done"
    /\ site' = "none"
    /\ pending' = NoResp
    /\ UNCHANGED <<world, req, norm, subject, primary, reply, netCalls, probes, log, faults,
                   crashed>>

Raise(r, s, prim) ==
    CASE r.svc = "m8803" -> Raise8803(s, prim)
      [] r.svc = "mgr" -> RaiseMgr(r, s, prim)
      [] OTHER -> RaiseParser(r, s, prim)

\* a write on the socket raised: at end_headers (nothing of the response is
\* out, its header block stays in the buffer) or at wfile.write of the body
\* (the status line and headers are out)
SendFault ==
    /\ pc = "send"
    /\ \E atBody \in BOOLEAN :
         IF atBody
         THEN /\ wire' = Append(wire, [pending EXCEPT !.complete = FALSE, !.stale = hdrBuf])
              /\ hdrBuf' = <<>>
         ELSE /\ wire' = wire
              /\ hdrBuf' = Append(hdrBuf, pending.code)
    /\ faults' = faults + 1
    /\ Apply(Raise(req, site, primary), log)
    /\ UNCHANGED <<world, req, norm, subject, reply, netCalls, probes>>

\* the handler returned; the server takes the next request
Finish ==
    /\ pc = "done"
    /\ pc' = "idle"
    /\ req' = NoRequest
    /\ norm' = "none"
    /\ subject' = Absent
    /\ site' = "none"
    /\ pending' = NoResp
    /\ primary' = "none"
    /\ reply' = "none"
    /\ netCalls' = 0
    /\ probes' = <<>>
    /\ log' = <<>>
    /\ wire' = <<>>
    /\ faults' = 0
    /\ hdrBuf' = <<>>
    /\ crashed' = FALSE
    /\ UNCHANGED world

Next ==
    \/ Receive8803
    \/ ReceiveMgr
    \/ ReceiveParser
    \/ Get8803
    \/ GetParser
    \/ GetMgr
    \/ Probe
    \/ Reply8803
    \/ ReplyMgr
    \/ ReplyParser
    \/ SendOk
    \/ SendFault
    \/ Finish

Spec == Init /\ [][Next]_vars

(***************************************************************************)
(* Sessions: a client sends one request after another, also within one     *)
(* second of the clock and across a restart of the server process, and     *)
(* keeps what it was answered.  The socket does not fail in a session.     *)
(***************************************************************************)
MaxClock == 1

MaxHistory == 1

Tasks8803 ==
    {Request("m8803", "/", "badjson", Absent, Absent, Absent, Absent, Absent, Absent, Absent),
     Request("m8803", "/", "dict", Absent, Absent, Str(<<"kubernetes">>), Num(50),
             Absent, Absent, Absent)}

TasksMgr ==
    {Request("mgr", "/generate/content", "dict", Absent, Absent, Absent, Absent,
             Str(<<"write", "a", "blog">>), Absent, Absent)}

TasksParser ==
    {Request("parser", "/v1/parse", "dict", Absent, Absent, Absent, Absent, Absent,
             Str(<<"write", "a", "blog">>), Absent)}

Task8803 ==
    \E r \in Tasks8803 : Begin(r, Post8803(r, apiKey), Norm8803(r), Subject8803(r))

TaskMgr ==
    \E r \in TasksMgr : Begin(r, PostMgr(r), NormMgr(r), SubjectMgr(r))

TaskParser ==
    \E r \in TasksParser : Begin(r, PostParser(r, apiKey), NormParser(r), SubjectParser(r))

\* time.time() moved on to the next second
Tick ==
    /\ clock < MaxClock
    /\ clock' = clock + 1
    /\ UNCHANGED <<apiKey, hashSeed, hist, pc, req, norm, subject, site, pending, primary,
                   reply, netCalls, probes, log, wire, faults, hdrBuf, crashed>>

\* the server process is started anew: main() runs again
Restart ==
    /\ pc = "idle"
    /\ apiKey' \in Credentials
    /\ hashSeed' \in HashSeeds
    /\ UNCHANGED <<clock, hist, pc, req, norm, subject, site, pending, primary,
                   reply, netCalls, probes, log, wire, faults, hdrBuf, crashed>>

\* what the client keeps of an exchange
Exchange(r, responses, upstream) == [req |-> r, wire |-> responses, reply |-> upstream]

\* the handler returned and the client has its answer
FinishKeep ==
    /\ pc = "done"
    /\ Len(hist) < MaxHistory
    /\ hist' = Append(hist, Exchange(req, wire, reply))
    /\ pc' = "idle"
    /\ req' = NoRequest
    /\ norm' = "none"
    /\ subject' = Absent
    /\ site' = "none"
    /\ pending' = NoResp
    /\ primary' = "none"
    /\ reply' = "none"
    /\ netCalls' = 0
    /\ probes' = <<>>
    /\ log' = <<>>
    /\ wire' = <<>>
    /\ faults' = 0
    /\ hdrBuf' = <<>>
    /\ crashed' = FALSE
    /\ UNCHANGED <<apiKey, hashSeed, clock>>

NextSession ==
    \/ Task8803
    \/ TaskMgr
    \/ TaskParser
    \/ Reply8803
    \/ ReplyMgr
    \/ ReplyParser
    \/ SendOk
    \/ FinishKeep
    \/ Tick
    \/ Restart

SpecSession == Init /\ [][NextSession]_vars

(***************************************************************************)
(* Content tasks: the 8803 service is asked for content of every target    *)
(* size around zero and around the length of its template.                 *)
(***************************************************************************)
MaxSmall == 3

MaxTarget == 275

TargetVals == ((0 - MaxSmall)..MaxSmall) \cup ((TemplateBaseWords - 1)..MaxTarget)

TopicVals == SubjectVals \cup {Str(<<"edge", "ai", "chips">>)}

\* blog posts of every target size, and generic content (no target size is read)
ContentTasks ==
    {Request("m8803", "/", "dict", Absent, Absent, t, Num(n), Absent, Absent, Absent) :
        t \in TopicVals, n \in TargetVals}
    \cup {Request("m8803", "/", "dict", Str(<<"email_newsletter">>), Absent, t, Absent,
                  Absent, Absent, Absent) : t \in TopicVals}

TaskContent ==
    \E r \in ContentTasks : Begin(r, Post8803(r, apiKey), Norm8803(r), Subject8803(r))

NextContent ==
    \/ TaskContent
    \/ Reply8803
    \/ SendOk
    \/ SendFault
    \/ Finish

SpecContent == Init /\ [][NextContent]_vars

(***************************************************************************)
(* Vocabulary of the properties.                                           *)
(***************************************************************************)
FailureReasons ==
    {"missing_credentials", "timeout", "transport_error", "bad_upstream_status",
     "malformed_upstream_body"}

\* the handler ran to its end and no write on the socket failed
DoneClean == pc = "done" /\ faults = 0

FallbackEntered == \E i \in 1..Len(log) : log[i].res = "fallback"

EveryResolverReturned == \A i \in 1..Len(log) : log[i].ok

\* ai_generated = false (m8803), real_ai_parsing = false or fallback_used (parser, mgr)
HasFallbackFlag(w) == w.aiFlag = "false" \/ w.fallbackUsed

OneCompleted200 ==
    /\ Len(wire) = 1
    /\ wire[1].code = 200
    /\ wire[1].status = "completed"

\* the request goes to a handler that starts with the primary resolver
UsesCredential == req.svc \in {"m8803", "parser"}

RoutedToPrimary ==
    /\ norm = "accepted"
    /\ req.svc = "m8803" => Route8803(req) = "blog_post"

(***************************************************************************)
(* C1: for every request that passed normalization, every failure of the   *)
(* primary resolver (missing credential, timeout, transport error, non-2xx *)
(* status, malformed or empty 2xx body) ends in one HTTP 200 completed     *)
(* response built by the fallback; none is surfaced as an error response.  *)
(***************************************************************************)
C1_PrimaryFailureAbsorbed ==
    (DoneClean /\ norm = "accepted" /\ primary \in FailureReasons)
        => (OneCompleted200 /\ wire[1].prov = "fallback")

(***************************************************************************)
(* C2: fallback or template content is produced for a request only after   *)
(* the primary resolver returned a failure for it, whatever the task kind  *)
(* (blog_post, social_media, generic, content, blog, intent parse).        *)
(***************************************************************************)
C2_PrimaryAlwaysFirst ==
    (faults = 0 /\ \E i \in 1..Len(log) : log[i].res \in {"fallback", "template"})
        => primary \in FailureReasons \cup {"payload_error"}

(***************************************************************************)
(* C3: the fallback resolver never fails: once entered for a request that  *)
(* normalization accepted, it returns and the request ends with one HTTP   *)
(* 200 completed response, never with a 500, also for an input that is no  *)
(* string and a word_count that is no integer.                             *)
(***************************************************************************)
C3_FallbackNeverFails ==
    (DoneClean /\ norm = "accepted" /\ FallbackEntered)
        => (EveryResolverReturned /\ OneCompleted200)

(***************************************************************************)
(* C4: when the upstream answers with a non-2xx status, the response of    *)
(* every service is a completed envelope that carries a fallback           *)
(* provenance flag and a warning field.                                    *)
(***************************************************************************)
C4_Non2xxCompletedWithWarning ==
    (DoneClean /\ reply = "status_429" /\ EveryResolverReturned)
        => (/\ OneCompleted200
            /\ HasFallbackFlag(wire[1])
            /\ wire[1].warning)

C6_NoPlaceholderOutput ==
    /\ \A i \in 1..Len(wire) : wire[i].aiFlag = "true" => ~wire[i].invented
    /\ (/\ DoneClean
        /\ EveryResolverReturned
        /\ \/ reply \in BodyFailures
           \/ req.svc = "parser" /\ reply \in {"text_nojson", "text_badjson"})
        => (OneCompleted200 /\ wire[1].prov = "fallback" /\ HasFallbackFlag(wire[1]))

(***************************************************************************)
(* C7: a request whose normalization fails (a body that does not parse, or *)
(* an intent-parse request without a non-empty input) ends with one        *)
(* 400-class error response and no resolver is run for it; a content task  *)
(* without a subject alias is accepted with the fixed default topic.       *)
(***************************************************************************)
NormalizationFails ==
    \/ req.body = "badjson"
    \/ /\ req.svc = "parser"
       /\ req.body = "dict"
       /\ req.path = "/v1/parse"
       /\ ~Truthy(UserInput(req))

C7_RejectedGets400 ==
    /\ (DoneClean /\ NormalizationFails)
        => (/\ Len(wire) = 1
            /\ wire[1].status = "error"
            /\ wire[1].code \in 400..499
            /\ log = <<>>)
    /\ (/\ req.svc = "m8803"
        /\ req.body = "dict"
        /\ req.definition = Absent
        /\ req.topic = Absent)
        => (norm = "accepted" /\ subject = Str(<<"AI", "automation">>))

(***************************************************************************)
(* C8: whenever the primary or the fallback resolver runs, the subject it  *)
(* is given is non-empty, and no completed response is built from an empty *)
(* subject.                                                                *)
(***************************************************************************)
C8_SubjectNeverEmpty ==
    faults = 0
        => (/\ \A i \in 1..Len(log) : log[i].subj # Str(<<>>)
            /\ \A i \in 1..Len(wire) :
                 wire[i].status = "completed" => wire[i].subj # Str(<<>>))

(***************************************************************************)
(* C9: normalization takes the subject from the first alias present: for a *)
(* content task "definition", else "topic", else the fixed default, and    *)
(* every resolver of the request is given that subject; for a parse task   *)
(* "input", else "text".                                                   *)
(***************************************************************************)
C9_AliasPrecedence ==
    /\ (req.svc = "m8803" /\ req.body = "dict")
        => (/\ req.definition # Absent => subject = req.definition
            /\ (req.definition = Absent /\ req.topic # Absent) => subject = req.topic
            /\ (req.definition = Absent /\ req.topic = Absent)
                 => subject = Str(<<"AI", "automation">>)
            /\ \A i \in 1..Len(log) : log[i].subj = subject
            /\ \A i \in 1..Len(wire) :
                 wire[i].status = "completed" => wire[i].subj = subject)
    /\ (req.svc = "parser" /\ req.body = "dict" /\ req.path = "/v1/parse")
        => (/\ req.input # Absent => subject = req.input
            /\ (req.input = Absent /\ req.text # Absent) => subject = req.text
            /\ (req.input = Absent /\ req.text = Absent) => subject = Str(<<>>)
            /\ pc = "upstream" => log[1].subj = subject)

C9_Witness ==
    /\ pc = "done"
    /\ req.svc = "m8803"
    /\ req.definition = Str(<<"ai", "ethics">>)
    /\ req.topic = Str(<<"kubernetes">>)
    /\ subject = Str(<<"ai", "ethics">>)
    /\ Len(wire) = 1
    /\ wire[1].status = "completed"
    /\ wire[1].subj = Str(<<"ai", "ethics">>)

(***************************************************************************)
(* C10: every POST request gets exactly one response; a fault raised after *)
(* a response has started to be written does not make the handler write a  *)
(* second response for the same request.                                   *)
(***************************************************************************)
StatusLines(i) == Len(wire[i].stale) + 1

C10_OneResponsePerRequest ==
    /\ Len(wire) <= 1
    /\ \A i \in 1..Len(wire) : StatusLines(i) = 1

(***************************************************************************)
(* C11: execution_id is unique per request: two distinct requests, also    *)
(* two received within the same clock second, never get the same           *)
(* execution_id in their response envelopes, the error envelopes with the  *)
(* error prefix included.                                                  *)
(***************************************************************************)
C11_ExecutionIdUnique ==
    \A i \in 1..Len(hist) : \A j \in 1..Len(hist[i].wire) : \A m \in 1..Len(wire) :
        wire[m].execId # NoId => wire[m].execId # hist[i].wire[j].execId

(***************************************************************************)
(* C12: the envelope has one shape whatever path resolved the request: for *)
(* each service and endpoint the response of the fallback path has the     *)
(* same set of envelope fields as the response of the primary path; only   *)
(* the provenance flag, the warning and the values differ.                 *)
(***************************************************************************)
ProvenanceFields ==
    {"warning", "result.message", "result.fallback_used", "fallback_used",
     "result.real_ai_content", "result.real_ai_generation", "real_ai_parsing"}

\* the fields of the response the primary path of the request's endpoint builds
PrimaryShape ==
    CASE req.svc = "m8803" -> Fields8803
      [] req.svc = "mgr" /\ req.path = "/generate/blog" -> BlogFieldsMgr
      [] req.svc = "mgr" -> ContentFieldsMgr
      [] OTHER -> PrimaryFieldsParser

C12_UniformEnvelope ==
    \A i \in 1..Len(wire) :
        (/\ faults = 0
         /\ RoutedToPrimary
         /\ wire[i].status = "completed"
         /\ wire[i].prov = "fallback")
            => wire[i].fields \ ProvenanceFields = PrimaryShape \ ProvenanceFields

(***************************************************************************)
(* C13: fallback truncation: for every integer target size smaller than    *)
(* the word count of the filled-in template, the fallback content is the   *)
(* first target-size words of the template followed by the closing tag,    *)
(* and the word_count the response reports equals the target size.         *)
(***************************************************************************)
\* a completed response of the blog handler whose content the fallback made
BlogFallbackOnWire(i) ==
    /\ req.svc = "m8803"
    /\ Route8803(req) = "blog_post"
    /\ req.word_count.ty = "int"
    /\ wire[i].status = "completed"
    /\ wire[i].prov = "fallback"

C13_TruncatesToTarget ==
    \A i \in 1..Len(wire) :
        (BlogFallbackOnWire(i) /\ req.word_count.n < TemplateWords(subject))
            => (/\ wire[i].content.kept = req.word_count.n
                /\ wire[i].content.closing
                /\ wire[i].content.extra = 0
                /\ wire[i].wordCount = Num(req.word_count.n))

(***************************************************************************)
(* C14: fallback extension: the additional section is appended, and once   *)
(* only, exactly when the template has fewer words than 80% of the target  *)
(* size (5 * words < 4 * target); no content is both cut and extended; and *)
(* a template of at least 80% and at most 100% of the target size is       *)
(* returned as it is.                                                      *)
(***************************************************************************)
\* the target size the fallback content of the request is made for
TargetSize == IF Route8803(req) = "generic" THEN GenericWordCount ELSE req.word_count.n

FallbackContentOnWire(i) ==
    /\ req.svc = "m8803"
    /\ wire[i].status = "completed"
    /\ wire[i].content.kind = "template"

C14_ExtendsBelow80Percent ==
    \A i \in 1..Len(wire) :
        FallbackContentOnWire(i)
            => LET words == TemplateWords(subject)
                   c == wire[i].content
               IN  /\ c.extra \in {0, 1}
                   /\ c.extra = 1 <=> 5 * words < 4 * TargetSize
                   /\ ~(c.closing /\ c.extra > 0)
                   /\ (4 * TargetSize <= 5 * words /\ words <= TargetSize)
                        => (/\ c = Content("template", words, FALSE, 0, "none")
                            /\ wire[i].wordCount = Num(words))

\* a three-word topic: 216 words; 271 is the first target with 5 * 216 < 4 * target
C14_Witness ==
    /\ pc = "done"
    /\ req.svc = "m8803"
    /\ subject = Str(<<"edge", "ai", "chips">>)
    /\ req.word_count = Num(271)
    /\ Len(wire) = 1
    /\ wire[1].content = Content("template", 216, FALSE, 1, "none")
    /\ wire[1].wordCount = Num(289)

(***************************************************************************)
(* C15: the fallback intent is classified by three ordered keyword sets,   *)
(* whatever the case of the letters: blog-post-generation exactly when the *)
(* input contains one of blog, post, article, write; image-generation      *)
(* exactly when it contains none of these and one of image, picture,       *)
(* photo; content-generation otherwise.  The function name and the         *)
(* content_type follow the workflow type, and confidence and               *)
(* confidence_score are 0.75.                                              *)
(***************************************************************************)
\* the input, in lower case, contains one of the words
Mentions(v, words) ==
    \E w \in words : Contains(Lower(Chars(v.s)), Spell(w))

FallbackIntentOnWire(i) ==
    /\ req.svc = "parser"
    /\ wire[i].status = "completed"
    /\ wire[i].prov = "fallback"

C15_KeywordClassification ==
    \A i \in 1..Len(wire) :
        FallbackIntentOnWire(i)
            => LET v == wire[i].subj
                   blog == Mentions(v, {"blog", "post", "article", "write"})
                   image == Mentions(v, {"image", "picture", "photo"})
                   it == wire[i].intent
               IN  /\ it.workflow = "blog-post-generation" <=> blog
                   /\ it.workflow = "image-generation" <=> (~blog /\ image)
                   /\ it.workflow = "content-generation" <=> (~blog /\ ~image)
                   /\ it.workflow = "blog-post-generation"
                        => (it.function = "create_blog_post" /\ it.contentType = "blog")
                   /\ it.workflow = "image-generation"
                        => (it.function = "create_image" /\ it.contentType = "image")
                   /\ it.workflow = "content-generation"
                        => (it.function = "create_content" /\ it.contentType = "content")
                   /\ it.confidence = Frac(75)
                   /\ it.confScore = Frac(75)

\* a blog keyword wins over an image keyword, in capitals too
C15_Witness ==
    /\ pc = "done"
    /\ req.svc = "parser"
    /\ req.input = Str(<<"Photo", "of", "a", "Blog">>)
    /\ Len(wire) = 1
    /\ wire[1].prov = "fallback"
    /\ wire[1].intent.workflow = "blog-post-generation"
    /\ wire[1].intent.function = "create_blog_post"
    /\ wire[1].intent.contentType = "blog"
    /\ wire[1].intent.confidence = Frac(75)

(***************************************************************************)
(* C16: a response resolved by the fallback has one fixed quality score    *)
(* per task kind: every blog / content response of the fallback has the    *)
(* quality_score 4.2, whichever failure of the primary led to it (missing  *)
(* credential, timeout, transport error, non-2xx status, malformed body).  *)
(***************************************************************************)
C16_FallbackScoreFixed ==
    \A i \in 1..Len(wire) :
        (/\ faults = 0
         /\ RoutedToPrimary
         /\ req.svc \in {"m8803", "mgr"}
         /\ primary \in FailureReasons
         /\ wire[i].status = "completed"
         /\ wire[i].prov = "fallback")
            => wire[i].quality = Frac(420)

(***************************************************************************)
(* C17: the fallback is deterministic: two requests with the identical     *)
(* task that the fallback resolves after the same outcome of the primary   *)
(* are answered with the same output in every field but the timestamp      *)
(* (which the responses of the model do not hold): the content and its     *)
(* envelope for content tasks, the intent and its identifiers for parse    *)
(* tasks.                                                                  *)
(***************************************************************************)
FallbackOutput(w) == w.status = "completed" /\ w.prov = "fallback"

C17_FallbackDeterministic ==
    \A i \in 1..Len(hist) : \A j \in 1..Len(hist[i].wire) : \A m \in 1..Len(wire) :
        (/\ hist[i].req = req
         /\ hist[i].reply = reply
         /\ FallbackOutput(hist[i].wire[j])
         /\ FallbackOutput(wire[m]))
            => hist[i].wire[j] = wire[m]

(***************************************************************************)
(* C18: the health endpoint of every service that uses a provider          *)
(* credential reflects whether the credential is there: GET /health (and   *)
(* GET /capabilities) reports the AI as available / connected exactly when *)
(* the credential is set.                                                  *)
(***************************************************************************)
ReportsAvailable(w) == w.aiAvailable \in {"true", "connected"}

C18_HealthReflectsCredential ==
    \A i \in 1..Len(wire) :
        (/\ UsesCredential
         /\ req.body = "none"
         /\ req.path \in {"/health", "/capabilities"}
         /\ wire[i].code = 200)
            => (ReportsAvailable(wire[i]) <=> apiKey = "set")

(***************************************************************************)
(* C19: in every intent response, of the primary or of the fallback, the   *)
(* top-level confidence and the confidence_score of each function are      *)
(* numbers within [0, 1], whatever value or type the upstream reply put in *)
(* its confidence field.                                                   *)
(***************************************************************************)
InUnitInterval(v) ==
    \/ v.ty = "float" /\ v.n >= 0 /\ v.n <= 100
    \/ v.ty = "int" /\ v.n \in {0, 1}

C19_ConfidenceInUnitInterval ==
    \A i \in 1..Len(wire) :
        (req.svc = "parser" /\ faults = 0 /\ wire[i].status = "completed")
            => (/\ InUnitInterval(wire[i].intent.confidence)
                /\ InUnitInterval(wire[i].intent.confScore))

(***************************************************************************)
(* C20: the quality score of a primary success is 4.7 + 0.05 * k with      *)
(* k = hash(text) mod 6 in 0..5: it lies in [4.70, 4.99] and is not below  *)
(* 4.7 for a negative hash either; and it is reproducible: two requests    *)
(* whose generated text is the same get the same score, in one server      *)
(* process or in two.                                                      *)
(***************************************************************************)
PrimarySuccess(r, w) ==
    /\ r.svc = "m8803"
    /\ w.status = "completed"
    /\ w.prov = "primary"

C20_PrimaryScoreReproducible ==
    /\ \A m \in 1..Len(wire) :
         PrimarySuccess(req, wire[m])
            => (/\ wire[m].quality.ty = "float"
                /\ \E k \in 0..5 : wire[m].quality.n = 470 + 5 * k
                /\ wire[m].quality.n >= 470
                /\ wire[m].quality.n <= 499)
    /\ \A i \in 1..Len(hist) : \A j \in 1..Len(hist[i].wire) : \A m \in 1..Len(wire) :
         (/\ PrimarySuccess(hist[i].req, hist[i].wire[j])
          /\ PrimarySuccess(req, wire[m])
          /\ hist[i].wire[j].content = wire[m].content)
            => hist[i].wire[j].quality = wire[m].quality

(***************************************************************************)
(* C21: in the intent parser, every fallback intent returned for a request *)
(* that passed input validation is built from the raw input that was       *)
(* validated ("input", else "text"): its original_input and topic are that *)
(* value on every path, the except branch of _handle_intent_parsing        *)
(* included.                                                               *)
(***************************************************************************)
C21_FallbackFromValidatedInput ==
    (faults = 0 /\ req.svc = "parser" /\ norm = "accepted")
        => \A i \in 1..Len(wire) :
             FallbackIntentOnWire(i) => wire[i].subj = subject

(***************************************************************************)
(* C22: in the GET /services response of the MCP manager the summary       *)
(* agrees with the listing: healthy_services is the number of listed       *)
(* services whose status is 'healthy', whatever the downstream service     *)
(* does, a change of its health between the probes of one response         *)
(* included.                                                               *)
(***************************************************************************)
\* a complete response to GET /services of the manager
ServicesListOnWire(i) ==
    /\ req.svc = "mgr"
    /\ req.body = "none"
    /\ req.path = "/services"
    /\ wire[i].code = 200
    /\ wire[i].complete

\* the listed services whose status is 'healthy'
HealthyListed(w) == Cardinality({j \in 1..Len(w.services) : w.services[j] = "healthy"})

C22_SummaryMatchesListing ==
    faults = 0
        => \A i \in 1..Len(wire) :
             ServicesListOnWire(i) => wire[i].healthyServices = Num(HealthyListed(wire[i]))

====
